---- MODULE Spec2Model ----
(***************************************************************************)
(* Model of the sfnw-backend webhook relay services.                        *)
(*                                                                          *)
(*   src/main.py  POST /webhook   (handle_webhook): validate, calendar,     *)
(*                                 SMS, email, aggregate JSON result        *)
(*   src/Main.py  POST /sfnw/book (book_appointment): calendar + SMS,       *)
(*                                 any failure is a 500                     *)
(*                                                                          *)
(* The two applications share no state.  The model runs one handler         *)
(* invocation at a time, for either endpoint, and keeps the world the       *)
(* handlers act on (the calendar) across requests; a second /webhook        *)
(* invocation can be in flight, parked, and take over after any step.       *)
(* Strings are tuples of characters or of                                   *)
(* lexical tokens, so that length, digit filtering, str.replace and         *)
(* datetime.fromisoformat are computed as the code computes them.           *)
(***************************************************************************)
EXTENDS Integers, Sequences, FiniteSets, TLC

VARIABLES
    env,          \* process environment read at startup (main.py 84, 196-198, 276-277)
    pc,           \* position of the handler serving the current request
    endpoint,     \* "webhook" (main.py) or "book" (Main.py) or "none"
    body,         \* the request body as delivered
    payload,      \* the validated WebhookPayload / BookingRequest fields, or NoPayload
    responses,    \* handle_webhook's local dict `responses` (main.py 535-541)
    outcome,      \* what each step of the current request did
    calls,        \* external calls issued for the current request, in order
    sent,         \* HTTP responses returned for the current request, in order
    nEvents,      \* events on the provider's calendar (world state)
    delivered,    \* requests received so far
    other         \* the locals of a second handler invocation in flight, parked

vars == <<env, pc, endpoint, body, payload, responses, outcome, calls, sent,
          nEvents, delivered, other>>

-----------------------------------------------------------------------------
(* Bounds *)

MaxDeliveries == 2      \* requests served in one behaviour
MaxCallerLen == 11      \* longest caller string of the exhaustive caller set

(* Program constants *)

MinPhoneLen == 10               \* main.py 56: len(v) < 10
MinPhoneDigits == 10            \* main.py 60: len(digits) < 10
HTTP_200_OK == 200              \* main.py 547, 625; Main.py 122
HTTP_400_BAD_REQUEST == 400     \* main.py 521
HTTP_500_INTERNAL_SERVER_ERROR == 500   \* main.py 647; Main.py 132

-----------------------------------------------------------------------------
(* Values *)

None == <<"None">>              \* Python None / JSON null / absent key

Truthy(v) == v # None /\ v # <<>>       \* Python truthiness of Optional[str]

-----------------------------------------------------------------------------
(* Characters and lexical tokens of the modelled strings *)

Digits == {"0", "1", "2", "3", "4", "5", "6", "7", "8", "9"}

DateTok == {"2025-06-02"}                   \* YYYY-MM-DD
TimeTok == {"15:00:00"}                     \* HH:MM:SS
OffsetTok == {"+00:00", "-04:00"}           \* +HH:MM / -HH:MM
SepTok == {"T", " ", "Z"}                   \* any single character separates date and time
SecTok == {":30"}                           \* :SS, seconds of a UTC offset

isdigit(c) == c \in Digits                  \* str.isdigit on one character

\* seconds since midnight of a time-of-day written HH:MM[:SS]
TimeOfDay(t) ==
    CASE t = "15:00:00" -> 54000
      [] t = "00:00" -> 0
      [] t = "04:00" -> 14400
      [] OTHER -> 0

\* seconds east of UTC of an offset token
OffsetSeconds(o) ==
    CASE o = "+00:00" -> 0
      [] o = "-04:00" -> 0 - 14400
      [] OTHER -> 0

-----------------------------------------------------------------------------
(* datetime.fromisoformat, as called at main.py 69, 133, 254 and 354.        *)
(* Accepts YYYY-MM-DD[*HH:MM[:SS][+HH:MM[:SS]]] where * is any one          *)
(* character.  A date directly followed by an offset, "2025-06-02+00:00",   *)
(* reads the sign as the separator and the rest as a naive time of day.     *)
(* "naive" marks a datetime without tzinfo.                                 *)

Invalid == [ok |-> FALSE, date |-> "", time |-> 0, tz |-> "naive", utcoffset |-> 0]

Parsed(d, t, tz, off) == [ok |-> TRUE, date |-> d, time |-> t, tz |-> tz, utcoffset |-> off]

fromisoformat(s) ==
    CASE Len(s) = 1 /\ s[1] \in DateTok ->
            Parsed(s[1], 0, "naive", 0)
      [] Len(s) = 2 /\ s[1] \in DateTok /\ s[2] \in OffsetTok ->
            Parsed(s[1], TimeOfDay(IF s[2] = "+00:00" THEN "00:00" ELSE "04:00"), "naive", 0)
      [] Len(s) = 3 /\ s[1] \in DateTok /\ s[2] \in SepTok /\ s[3] \in TimeTok ->
            Parsed(s[1], TimeOfDay(s[3]), "naive", 0)
      [] Len(s) = 4 /\ s[1] \in DateTok /\ s[2] \in SepTok /\ s[3] \in TimeTok
                    /\ s[4] \in OffsetTok ->
            Parsed(s[1], TimeOfDay(s[3]), "aware", OffsetSeconds(s[4]))
      [] Len(s) = 5 /\ s[1] \in DateTok /\ s[2] \in SepTok /\ s[3] \in TimeTok
                    /\ s[4] \in OffsetTok /\ s[5] \in SecTok ->
            Parsed(s[1], TimeOfDay(s[3]), "aware",
                   IF s[4] = "-04:00" THEN OffsetSeconds(s[4]) - 30
                                      ELSE OffsetSeconds(s[4]) + 30)
      [] OTHER -> Invalid

\* v.replace('Z', '+00:00'): every occurrence, not only a trailing one
replace_Z(v) == [i \in 1..Len(v) |-> IF v[i] = "Z" THEN "+00:00" ELSE v[i]]

\* the parse every consumer of callback_time performs (main.py 69, 133, 254, 354)
parse_callback_time(v) == fromisoformat(replace_Z(v))

-----------------------------------------------------------------------------
(* WebhookPayload validation (main.py 41-72).  A validator yields "ok" or    *)
(* the message of the ValueError it raises.                                  *)

PhoneTooShort == "Phone number must be at least 10 digits"
PhoneFewDigits == "Phone number must contain at least 10 digits"
BadDatetime == "callback_time must be valid ISO 8601 datetime"
BadEmail == "value is not a valid email address"
FieldRequired == "caller: field required"
NotAMapping == "argument after ** must be a mapping"
JSONDecodeError == "Expecting value"

PhoneErrors == {PhoneTooShort, PhoneFewDigits}

digits_of(v) == SelectSeq(v, isdigit)       \* ''.join(filter(str.isdigit, v))

\* mutant of validate_phone: only len(v) is compared, formatting counts as digits
validate_phone_LengthOnly(v) ==
    IF v = <<>> \/ Len(v) < MinPhoneLen THEN PhoneTooShort ELSE "ok"

validate_phone(v) ==
    IF v = <<>> \/ Len(v) < MinPhoneLen THEN PhoneTooShort
    ELSE IF Len(digits_of(v)) < MinPhoneDigits THEN PhoneFewDigits
    ELSE "ok"

validate_datetime(v) ==
    IF Truthy(v)
    THEN IF parse_callback_time(v).ok THEN "ok" ELSE BadDatetime
    ELSE "ok"

\* EmailStr (main.py 50): one "@", a dot-atom before it, a dotted domain after it
IsAtom(t) == t \notin {"@", "."}

IsDotAtom(s) ==
    /\ Len(s) >= 1
    /\ Len(s) % 2 = 1
    /\ \A i \in 1..Len(s) : IF i % 2 = 1 THEN IsAtom(s[i]) ELSE s[i] = "."

EmailStr(v) ==
    IF \E i \in 1..Len(v) :
          /\ v[i] = "@"
          /\ IsDotAtom(SubSeq(v, 1, i - 1))
          /\ IsDotAtom(SubSeq(v, i + 1, Len(v)))
          /\ Len(v) - i >= 3
    THEN "ok" ELSE BadEmail

\* WebhookPayload(**raw_data), main.py 517: the messages of every failed field
PayloadErrors(raw) ==
    IF raw.kind # "json_object" THEN {NotAMapping}
    ELSE   (IF raw.caller = None THEN {FieldRequired} ELSE {validate_phone(raw.caller)} \ {"ok"})
      \cup (IF raw.callback_time = None THEN {} ELSE {validate_datetime(raw.callback_time)} \ {"ok"})
      \cup (IF raw.email = None THEN {} ELSE {EmailStr(raw.email)} \ {"ok"})

-----------------------------------------------------------------------------
(* Request bodies *)

Caller_123 == <<"1", "2", "3">>                                         \* "123"
Caller_Full == <<"+", "1", "2", "0", "2", "5", "5", "5", "1", "2", "3", "4">>  \* "+12025551234"
Caller_Min == <<"+", "1", "9", "8", "7", "6", "5", "4", "3", "2", "1">>        \* "+1987654321"
Caller_Dashes == <<"2", "0", "2", "-", "5", "5", "5", "-", "1", "2", "3">>     \* "202-555-123"

SampleCallers == {None, <<>>, Caller_123, Caller_Full, Caller_Min, Caller_Dashes}

CallerAlphabet == {"5", "-"}

\* every caller string over CallerAlphabet of at most MaxCallerLen characters
AllCallers == UNION {[1..k -> CallerAlphabet] : k \in 0..MaxCallerLen}

Time_Z == <<"2025-06-02", "T", "15:00:00", "Z">>              \* "2025-06-02T15:00:00Z"
Time_Naive == <<"2025-06-02", "T", "15:00:00">>               \* "2025-06-02T15:00:00"
Time_Offset == <<"2025-06-02", "T", "15:00:00", "-04:00">>    \* "2025-06-02T15:00:00-04:00"
Time_Garbage == <<"not-a-datetime">>                          \* "not-a-datetime"
Time_MidZ == <<"2025-06-02", "T", "15:00:00", "Z", ":30">>    \* "2025-06-02T15:00:00Z:30"
Time_ZSep == <<"2025-06-02", "Z", "15:00:00">>                \* "2025-06-02Z15:00:00"
Time_DoubleZ == <<"2025-06-02", "T", "15:00:00", "Z", "Z">>   \* "2025-06-02T15:00:00ZZ"

CallbackTimes == {None, <<>>, Time_Z, Time_Naive, Time_Offset, Time_Garbage,
                  Time_MidZ, Time_ZSep, Time_DoubleZ}

Email_Jane == <<"jane", "@", "example", ".", "com">>          \* "jane@example.com"
Email_Bad == <<"not-an-email">>                               \* "not-an-email"

Emails == {None, <<>>, Email_Jane, Email_Bad}

Name_Jane == <<"Jane Smith">>                                 \* "Jane Smith"
Name_Default == <<"Valued Customer">>                         \* main.py 527

Date_Ymd == <<"%Y-%m-%d">>      \* a date written YYYY-MM-DD
Date_Mdy == <<"%m/%d/%Y">>      \* a date written MM/DD/YYYY
Clock_HM == <<"%H:%M">>         \* a time written HH:MM, 24 h
Clock_12h == <<"%I:%M %p">>     \* a time written H:MM AM/PM

BookDates == {Date_Ymd, Date_Mdy, <<>>}
BookTimes == {Clock_HM, Clock_12h}

WebhookBody(kind, caller, callback_time, email) ==
    [kind |-> kind, caller |-> caller, callback_time |-> callback_time, email |-> email,
     customer_name |-> None, preferred_date |-> None, preferred_time |-> None]

BookingBody(d, t) ==
    [kind |-> "booking", caller |-> None, callback_time |-> None, email |-> None,
     customer_name |-> None, preferred_date |-> d, preferred_time |-> t]

\* bodies that are not a JSON object: unparseable text, and a JSON array/string/null
MalformedBodies == {WebhookBody("not_json", None, None, None),
                    WebhookBody("json_non_object", None, None, None)}

ObjectBodies(callers, times, emails) ==
    {WebhookBody("json_object", c, t, e) : c \in callers, t \in times, e \in emails}

\* the bodies of one caller that also carry a customer_name
NamedBodies ==
    {[b EXCEPT !.customer_name = Name_Jane] :
        b \in ObjectBodies({Caller_Full}, CallbackTimes, Emails)}

BookingBodies == {BookingBody(d, t) : d \in BookDates, t \in BookTimes}

-----------------------------------------------------------------------------
(* Per-request state *)

NoPayload == [caller |-> None, callback_time |-> None, email |-> None, customer_name |-> None]

\* main.py 535-541
InitialResponses ==
    [calendar_created |-> FALSE, sms_sent |-> FALSE, email_sent |-> FALSE,
     calendar_event_id |-> None, calendar_link |-> None]

Unrendered == <<"unrendered">>

NoOutcome ==
    [validation |-> "none", calendar |-> "none", sms |-> "none", email |-> "none",
     email_link |-> Unrendered, calendar_returned |-> None, event_start |-> None]

\* the event resource the calendar provider returns for its n-th event
EventId(n) == <<"event", n>>
HtmlLink(n) == <<"https://calendar/event", n>>

Response(code, status, detail, has_data, data, appointment_time) ==
    [status_code |-> code, status |-> status, detail |-> detail,
     has_data |-> has_data, data |-> data, appointment_time |-> appointment_time]

\* raise HTTPException(status_code=code, detail=...)
HTTPException(code, detail) ==
    Response(code, "error", detail, FALSE, InitialResponses, None)

\* twilio_client (main.py 200-208): built only when both TWILIO_SID and TWILIO_AUTH are set
twilio_client == env.TWILIO_SID /\ env.TWILIO_AUTH

-----------------------------------------------------------------------------
(* Startup and request arrival *)

\* the locals of a handler invocation that serves no request
IdleSlot ==
    [pc |-> "idle", endpoint |-> "none", body |-> WebhookBody("none", None, None, None),
     payload |-> NoPayload, responses |-> InitialResponses, outcome |-> NoOutcome,
     calls |-> <<>>, sent |-> <<>>]

\* the locals of the invocation that is running
Running ==
    [pc |-> pc, endpoint |-> endpoint, body |-> body, payload |-> payload,
     responses |-> responses, outcome |-> outcome, calls |-> calls, sent |-> sent]

EnvVars == {"TWILIO_SID", "TWILIO_AUTH", "TWILIO_NUMBER", "EMAIL_FROM", "EMAIL_PASSWORD",
            "GOOGLE_SERVICE_ACCOUNT_JSON_B64"}

\* each variable of the environment is set (TRUE) or absent/empty (FALSE)
Init ==
    /\ env \in [EnvVars -> BOOLEAN]
    /\ pc = "idle"
    /\ endpoint = "none"
    /\ body = WebhookBody("none", None, None, None)
    /\ payload = NoPayload
    /\ responses = InitialResponses
    /\ outcome = NoOutcome
    /\ calls = <<>>
    /\ sent = <<>>
    /\ nEvents = 0
    /\ delivered = 0
    /\ other = IdleSlot

\* a request arrives at an idle server; the handler's locals start afresh
ReceiveFrom(bodies) ==
    /\ pc = "idle"
    /\ delivered < MaxDeliveries
    /\ \E b \in bodies :
          /\ body' = b
          /\ endpoint' = IF b.kind = "booking" THEN "book" ELSE "webhook"
    /\ pc' = "received"
    /\ payload' = NoPayload
    /\ responses' = InitialResponses
    /\ outcome' = NoOutcome
    /\ calls' = <<>>
    /\ sent' = <<>>
    /\ delivered' = delivered + 1
    /\ UNCHANGED <<env, other, nEvents>>

\* the request bodies of the main specification
RequestBodies ==
    MalformedBodies \cup ObjectBodies(SampleCallers, CallbackTimes, Emails)
        \cup NamedBodies \cup BookingBodies

Receive == ReceiveFrom(RequestBodies)

-----------------------------------------------------------------------------
(* handle_webhook, main.py 497-649 *)

\* mutant of OnValidationError: the failure is logged and the handler goes on
OnValidationError_LogOnly(errs) ==
    [pc |-> "validated", sent |-> <<>>]

\* mutant of OnValidationError: answers 422 Unprocessable Entity
OnValidationError_422(errs) ==
    [pc |-> "responded", sent |-> <<HTTPException(422, errs)>>]

\* main.py 518-523: a payload that fails validation raises HTTPException(400)
OnValidationError(errs) ==
    [pc |-> "responded", sent |-> <<HTTPException(HTTP_400_BAD_REQUEST, errs)>>]

\* main.py 643-649: anything else that escapes becomes HTTPException(500)
OnUnexpectedError(msg) ==
    [pc |-> "responded", sent |-> <<HTTPException(HTTP_500_INTERNAL_SERVER_ERROR, {msg})>>]

\* main.py 527: customer_name = payload.customer_name or "Valued Customer"
customer_name_or_default(v) == IF Truthy(v) THEN v ELSE Name_Default

\* main.py 510-541: parse the body, validate it, extract the fields.
\* request.client is set (uvicorn serves TCP, main.py 670) and json.dumps of
\* parsed JSON cannot fail, so the log line at 513 never raises.
Validate ==
    /\ pc = "received"
    /\ endpoint = "webhook"
    /\ IF body.kind = "not_json"
       THEN \* request.json() raises inside the outer try only
            LET h == OnUnexpectedError(JSONDecodeError) IN
            /\ pc' = h.pc
            /\ sent' = sent \o h.sent
            /\ outcome' = [outcome EXCEPT !.validation = "error"]
            /\ UNCHANGED <<payload, responses>>
       ELSE LET errs == PayloadErrors(body) IN
            IF errs # {}
            THEN LET h == OnValidationError(errs) IN
                 /\ pc' = h.pc
                 /\ sent' = sent \o h.sent
                 /\ outcome' = [outcome EXCEPT !.validation = "rejected"]
                 /\ UNCHANGED <<payload, responses>>
            ELSE /\ pc' = "validated"
                 /\ payload' = [caller |-> body.caller,
                                callback_time |-> body.callback_time,
                                email |-> body.email,
                                customer_name |-> customer_name_or_default(body.customer_name)]
                 /\ responses' = InitialResponses
                 /\ outcome' = [outcome EXCEPT !.validation = "ok"]
                 /\ UNCHANGED sent
    /\ UNCHANGED <<env, other, endpoint, body, calls, nEvents, delivered>>

\* mutant of NoCallbackTime: a payload already handled is acknowledged
\* without side effects
NoCallbackTime_OrAlreadyHandled(p) ==
    ~Truthy(p.callback_time) \/ (other.pc = "responded" /\ other.payload = p)

\* mutant of NoCallbackTime: `if callback_time is None`
NoCallbackTime_IsNone(p) == p.callback_time = None

\* main.py 544: `if not callback_time`
NoCallbackTime(p) == ~Truthy(p.callback_time)

\* main.py 543-553: no appointment time, acknowledge and return
AckNoCallback ==
    /\ pc = "validated"
    /\ endpoint = "webhook"
    /\ NoCallbackTime(payload)
    /\ sent' = Append(sent, Response(HTTP_200_OK, "acknowledged", {}, TRUE, responses, None))
    /\ pc' = "responded"
    /\ UNCHANGED <<env, other, endpoint, body, payload, responses, outcome, calls, nEvents, delivered>>

\* get_calendar_service, main.py 78-103: raises when the credentials are absent,
\* and may raise while decoding them or building the client
get_calendar_service_results ==
    IF env["GOOGLE_SERVICE_ACCOUNT_JSON_B64"] THEN {"service", "raises"} ELSE {"raises"}

\* create_calendar_event, main.py 105-189: the event the provider returned, or
\* "None" when the timestamp does not parse or the insert raises.
\* insert is the provider's answer to events().insert(...).execute()
create_calendar_event_results(callback_time) ==
    IF parse_callback_time(callback_time).ok THEN {"event", "None"} ELSE {"None"}

\* mutant of CalendarExceptionCaught: no except around the calendar step
CalendarExceptionEscapes == FALSE

\* main.py 577-579: the handler's own except around the calendar step
CalendarExceptionCaught == TRUE

\* main.py 152, 156: "timeZone": "America/New_York", four hours behind UTC on
\* the modelled date
EventTimeZoneOffset == OffsetSeconds("-04:00")

\* main.py 133, 150-153: the event starts at start_time.isoformat() with
\* timeZone America/New_York.  The instant, in seconds after 00:00 UTC of the
\* date: an aware start_time carries its offset into the dateTime string and
\* the offset decides; a naive one carries none and is read in the timeZone.
event_start_instant(dt) ==
    IF dt.tz = "aware" THEN dt.time - dt.utcoffset ELSE dt.time - EventTimeZoneOffset

\* mutant of record_event: the id and the link are stored, the flag is not
record_event_FlagUnset(r, n) ==
    [r EXCEPT !.calendar_event_id = EventId(n), !.calendar_link = HtmlLink(n)]

\* main.py 570-573: under `if event`, the flag, event.get("id"), event.get("htmlLink")
record_event(r, n) ==
    [r EXCEPT !.calendar_created = TRUE,
              !.calendar_event_id = EventId(n),
              !.calendar_link = HtmlLink(n)]

\* main.py 555-579
CalendarStep ==
    /\ pc = "validated"
    /\ endpoint = "webhook"
    /\ ~NoCallbackTime(payload)
    /\ \E svc \in get_calendar_service_results :
          IF svc = "raises"
          THEN /\ calls' = IF env["GOOGLE_SERVICE_ACCOUNT_JSON_B64"]
                           THEN Append(calls, "calendar.build") ELSE calls
               /\ outcome' = [outcome EXCEPT !.calendar = "raised"]
               /\ UNCHANGED <<responses, nEvents>>
               /\ IF CalendarExceptionCaught
                  THEN pc' = "calendar_attempted" /\ UNCHANGED sent
                  ELSE LET h == OnUnexpectedError("calendar") IN
                       pc' = h.pc /\ sent' = sent \o h.sent
          ELSE \E ev \in create_calendar_event_results(payload.callback_time) :
               /\ pc' = "calendar_attempted"
               /\ UNCHANGED sent
               /\ calls' = calls \o <<"calendar.build">>
                           \o (IF parse_callback_time(payload.callback_time).ok
                               THEN <<"calendar.events.insert">> ELSE <<>>)
               /\ IF ev = "event"
                  THEN /\ nEvents' = nEvents + 1
                       /\ responses' = record_event(responses, nEvents + 1)
                       /\ outcome' = [outcome EXCEPT
                                          !.calendar = "ok",
                                          !.calendar_returned = HtmlLink(nEvents + 1),
                                          !.event_start = event_start_instant(
                                               parse_callback_time(payload.callback_time))]
                  ELSE /\ outcome' = [outcome EXCEPT !.calendar = "failed"]
                       /\ UNCHANGED <<responses, nEvents>>
    /\ UNCHANGED <<env, other, endpoint, body, payload, delivered>>

\* mutant of send_sms_results: the sender number is not looked at
send_sms_results_ClientOnly ==
    IF ~twilio_client THEN {"disabled"} ELSE {"ok", "failed"}

\* send_sms, main.py 210-239: "disabled" without a client or a sender number,
\* otherwise one messages.create call that succeeds or raises
send_sms_results ==
    IF ~twilio_client \/ ~env["TWILIO_NUMBER"] THEN {"disabled"} ELSE {"ok", "failed"}

\* mutant of send_sms_calls: a failed messages.create is issued once more
send_sms_calls_RetryOnFailure(r) ==
    CASE r = "disabled" -> <<>>
      [] r = "failed" -> <<"twilio.messages.create", "twilio.messages.create">>
      [] OTHER -> <<"twilio.messages.create">>

\* the provider calls send_sms makes, main.py 221-239: none when disabled,
\* otherwise the one messages.create of its try block, whose except clauses
\* only log and return False
send_sms_calls(r) ==
    IF r = "disabled" THEN <<>> ELSE <<"twilio.messages.create">>

\* mutant of send_sms_returns: True whenever no exception escaped
send_sms_returns_Always(r) == TRUE

\* send_sms's return value, main.py 223, 232, 236, 239
send_sms_returns(r) == r = "ok"

\* mutant of SmsWanted: `if phone and responses["calendar_created"]`
SmsWanted_NeedsCalendar == Truthy(payload.caller) /\ responses.calendar_created

\* main.py 582: `if phone`
SmsWanted == Truthy(payload.caller)

\* main.py 581-593
SmsStep ==
    /\ pc = "calendar_attempted"
    /\ endpoint = "webhook"
    /\ IF SmsWanted
       THEN \E r \in send_sms_results :
               /\ calls' = calls \o send_sms_calls(r)
               /\ responses' = [responses EXCEPT !.sms_sent = send_sms_returns(r)]
               /\ outcome' = [outcome EXCEPT !.sms = r]
       ELSE UNCHANGED <<calls, responses, outcome>>
    /\ pc' = "sms_attempted"
    /\ UNCHANGED <<env, other, endpoint, body, payload, sent, nEvents, delivered>>

\* send_email, main.py 286-331
send_email_results ==
    IF ~env["EMAIL_FROM"] \/ ~env["EMAIL_PASSWORD"] THEN {"disabled"} ELSE {"ok", "failed"}

\* send_email's return value, main.py 301, 324, 328, 331
send_email_returns(r) == r = "ok"

\* mutant of EmailCalendarLink: the link of the latest event on the calendar
EmailCalendarLink_LatestEvent == IF nEvents > 0 THEN HtmlLink(nEvents) ELSE None

\* main.py 604: calendar_link=responses.get("calendar_link")
EmailCalendarLink == responses.calendar_link

\* format_email_body, main.py 376, 437: the link is rendered `if calendar_link`
format_email_body(calendar_link) == IF Truthy(calendar_link) THEN calendar_link ELSE None

\* main.py 595-619
EmailStep ==
    /\ pc = "sms_attempted"
    /\ endpoint = "webhook"
    /\ IF Truthy(payload.email)
       THEN \E r \in send_email_results :
               /\ calls' = IF r = "disabled" THEN calls ELSE Append(calls, "smtp.sendmail")
               /\ responses' = [responses EXCEPT !.email_sent = send_email_returns(r)]
               /\ outcome' = [outcome EXCEPT !.email = r,
                                             !.email_link = format_email_body(EmailCalendarLink)]
       ELSE UNCHANGED <<calls, responses, outcome>>
    /\ pc' = "notifications_attempted"
    /\ UNCHANGED <<env, other, endpoint, body, payload, sent, nEvents, delivered>>

\* mutant of aggregate_result: `responses` is one module-level dict, and the
\* invocation that wrote it last wins
aggregate_result_ModuleLevel ==
    IF other.pc # "idle" THEN other.responses ELSE responses

\* main.py 628: "data": responses, the dict this invocation built at 535-541
aggregate_result == responses

\* mutant of appointment_time: the timestamp as the parser reads it
appointment_time_Normalised(callback_time) == replace_Z(callback_time)

\* main.py 635: "appointment_time": callback_time, the validated string itself
\* (validate_datetime returns v as it came, main.py 72)
appointment_time(callback_time) == callback_time

\* main.py 621-637
Respond ==
    /\ pc = "notifications_attempted"
    /\ endpoint = "webhook"
    /\ sent' = Append(sent, Response(HTTP_200_OK, "success", {}, TRUE, aggregate_result,
                                     appointment_time(payload.callback_time)))
    /\ pc' = "responded"
    /\ UNCHANGED <<env, other, endpoint, body, payload, responses, outcome, calls, nEvents, delivered>>

\* the handler invocation ends once its response is out (return at main.py 546
\* and 624, raise at 520 and 646, Main.py 121 and 132); its locals are discarded
Return ==
    /\ pc = "responded"
    /\ pc' = "idle"
    /\ endpoint' = "none"
    /\ body' = WebhookBody("none", None, None, None)
    /\ payload' = NoPayload
    /\ responses' = InitialResponses
    /\ outcome' = NoOutcome
    /\ calls' = <<>>
    /\ sent' = <<>>
    /\ UNCHANGED <<env, other, nEvents, delivered>>

\* handle_webhook is a coroutine served by uvicorn (main.py 497-498, 667-670):
\* a second request can be in flight while the first is not finished.  The
\* server passes control from the running invocation to the parked one; each
\* keeps its own locals, the environment and the calendar are common.
Switch ==
    /\ pc # "idle" \/ other.pc # "idle"
    /\ other' = Running
    /\ pc' = other.pc
    /\ endpoint' = other.endpoint
    /\ body' = other.body
    /\ payload' = other.payload
    /\ responses' = other.responses
    /\ outcome' = other.outcome
    /\ calls' = other.calls
    /\ sent' = other.sent
    /\ UNCHANGED <<env, nEvents, delivered>>

-----------------------------------------------------------------------------
(* book_appointment, Main.py 59-132.  Main.py refuses to start unless all of *)
(* its credentials are set (Main.py 25-27), so the booking handler never     *)
(* runs with a disabled integration.                                         *)

\* datetime.strptime(f"{date} {time}", "%Y-%m-%d %H:%M"), Main.py 67-70
strptime_ok(date, time) == date = Date_Ymd /\ time = Clock_HM

\* mutant of OnBookException: the exception is logged and the handler goes on
OnBookException_GoOn(msg) ==
    [pc |-> "calendar_attempted", sent |-> <<>>]

\* Main.py 130-132: every exception of the handler body becomes a 500
OnBookException(msg) ==
    [pc |-> "responded", sent |-> <<HTTPException(HTTP_500_INTERNAL_SERVER_ERROR, {msg})>>]

\* Main.py 65-95
BookParse ==
    /\ pc = "received"
    /\ endpoint = "book"
    /\ IF strptime_ok(body.preferred_date, body.preferred_time)
       THEN /\ pc' = "validated"
            /\ outcome' = [outcome EXCEPT !.validation = "ok"]
            /\ UNCHANGED sent
       ELSE LET h == OnBookException("time data does not match format") IN
            /\ pc' = h.pc
            /\ sent' = sent \o h.sent
            /\ outcome' = [outcome EXCEPT !.validation = "error"]
    /\ UNCHANGED <<env, other, endpoint, body, payload, responses, calls, nEvents, delivered>>

\* Main.py 97-101: build the service, insert the event; either call may raise
BookCalendar ==
    /\ pc = "validated"
    /\ endpoint = "book"
    /\ \E r \in {"service_raises", "insert_raises", "event"} :
          /\ calls' = calls \o <<"calendar.build">>
                      \o (IF r = "service_raises" THEN <<>> ELSE <<"calendar.events.insert">>)
          /\ IF r = "event"
             THEN /\ nEvents' = nEvents + 1
                  /\ responses' = [responses EXCEPT
                                     !.calendar_created = TRUE,
                                     !.calendar_event_id = EventId(nEvents + 1)]
                  /\ outcome' = [outcome EXCEPT !.calendar = "ok"]
                  /\ pc' = "calendar_attempted"
                  /\ UNCHANGED sent
             ELSE LET h == OnBookException(r) IN
                  /\ pc' = h.pc
                  /\ sent' = sent \o h.sent
                  /\ outcome' = [outcome EXCEPT !.calendar = "raised"]
                  /\ UNCHANGED <<responses, nEvents>>
    /\ UNCHANGED <<env, other, endpoint, body, payload, delivered>>

\* Main.py 103-128: send the SMS, then answer 200; a raising send is a 500
BookSms ==
    /\ pc = "calendar_attempted"
    /\ endpoint = "book"
    /\ \E r \in {"ok", "failed"} :
          /\ calls' = Append(calls, "twilio.messages.create")
          /\ outcome' = [outcome EXCEPT !.sms = r]
          /\ IF r = "ok"
             THEN /\ responses' = [responses EXCEPT !.sms_sent = TRUE]
                  /\ sent' = Append(sent, Response(HTTP_200_OK, "ok", {}, TRUE,
                                                   [responses EXCEPT !.sms_sent = TRUE], None))
                  /\ pc' = "responded"
             ELSE LET h == OnBookException("twilio") IN
                  /\ pc' = h.pc
                  /\ sent' = sent \o h.sent
                  /\ UNCHANGED responses
    /\ UNCHANGED <<env, other, endpoint, body, payload, nEvents, delivered>>

-----------------------------------------------------------------------------
(* Specifications *)

\* the steps of a handler that is serving a request
HandlerStep ==
    \/ Validate
    \/ AckNoCallback
    \/ CalendarStep
    \/ SmsStep
    \/ EmailStep
    \/ Respond
    \/ BookParse
    \/ BookCalendar
    \/ BookSms
    \/ Return

Next ==
    \/ Receive
    \/ Validate
    \/ AckNoCallback
    \/ CalendarStep
    \/ SmsStep
    \/ EmailStep
    \/ Respond
    \/ BookParse
    \/ BookCalendar
    \/ BookSms
    \/ Return

Spec == Init /\ [][Next]_vars

\* The same handlers fed every caller string over CallerAlphabet up to
\* MaxCallerLen characters, started with every integration configured.
CallerBodies ==
    ObjectBodies(AllCallers, {None, Time_Z}, {None, Email_Jane}) \cup BookingBodies

ReceiveCallers == ReceiveFrom(CallerBodies)

InitCallers == Init /\ \A v \in EnvVars : env[v]

NextCallers ==
    \/ ReceiveCallers
    \/ Validate
    \/ AckNoCallback
    \/ CalendarStep
    \/ SmsStep
    \/ EmailStep
    \/ Respond
    \/ BookParse
    \/ BookCalendar
    \/ BookSms
    \/ Return

SpecCallers == InitCallers /\ [][NextCallers]_vars

\* Two /webhook requests in flight at once, in every interleaving of their
\* steps and in every environment.
PairBodies ==
    MalformedBodies
      \cup ObjectBodies({Caller_Full, Caller_123}, {None, Time_Z, Time_Naive}, {None, Email_Jane})
      \cup {n \in NamedBodies : n.callback_time = Time_Z}

ReceivePair == ReceiveFrom(PairBodies)

NextPair ==
    \/ ReceivePair
    \/ Validate
    \/ AckNoCallback
    \/ CalendarStep
    \/ SmsStep
    \/ EmailStep
    \/ Respond
    \/ Return
    \/ Switch

SpecPair == Init /\ [][NextPair]_vars

\* A handler invocation is sequential code whose every statement and provider
\* call returns (the transport's own timeout bounds a call), so a handler that
\* can take a step eventually does.  Arrival of requests is not fair.
FairSpec == Spec /\ WF_vars(HandlerStep)

-----------------------------------------------------------------------------
(* Vocabulary of the properties *)

Made(c) == \E i \in 1..Len(calls) : calls[i] = c

Answered == pc = "responded"

TheResponse == sent[1]

\* a /webhook request that passed validation and carries a callback_time
ValidatedWithCallback ==
    /\ endpoint = "webhook"
    /\ outcome.validation = "ok"
    /\ Truthy(payload.callback_time)

\* a /webhook request that passed validation and carries no callback_time
ValidatedNoCallback ==
    /\ endpoint = "webhook"
    /\ outcome.validation = "ok"
    /\ ~Truthy(payload.callback_time)

PastSms == pc \in {"sms_attempted", "notifications_attempted", "responded"}

PastEmail == pc \in {"notifications_attempted", "responded"}

-----------------------------------------------------------------------------
\* C1: for a validated /webhook request with a callback_time, send_sms is
\* invoked whatever the calendar step did (succeeded, returned failure or
\* raised), send_email is invoked whenever the payload has an email whatever
\* the calendar and SMS steps did, and the request always ends with its
\* response returned.
C1_SideEffectsIndependent ==
    /\ [](ValidatedWithCallback =>
            /\ PastSms => outcome.sms # "none"
            /\ (PastEmail /\ Truthy(payload.email)) => outcome.email # "none"
            /\ Answered => (Len(sent) = 1 /\ outcome.sms # "none"))
    /\ (ValidatedWithCallback ~> (ValidatedWithCallback /\ Answered))

\* the calendar step raised, the SMS provider call failed, and the email still went out
C1_Witness ==
    /\ ValidatedWithCallback
    /\ Answered
    /\ outcome.calendar = "raised"
    /\ outcome.sms = "failed"
    /\ outcome.email = "ok"
    /\ TheResponse.status_code = HTTP_200_OK

\* C2: for a validated /webhook request with a callback_time the response is
\* 200 under every combination of provider outcomes, and each flag of the
\* aggregate result is true exactly when that provider call was made and
\* succeeded.
C2_FlagsMatchOutcomes ==
    (ValidatedWithCallback /\ Answered) =>
        /\ Len(sent) = 1
        /\ TheResponse.status_code = HTTP_200_OK
        /\ TheResponse.has_data
        /\ TheResponse.data.calendar_created
              <=> (Made("calendar.events.insert") /\ outcome.calendar = "ok")
        /\ TheResponse.data.sms_sent
              <=> (Made("twilio.messages.create") /\ outcome.sms = "ok")
        /\ TheResponse.data.email_sent
              <=> (Made("smtp.sendmail") /\ outcome.email = "ok")

\* calendar-create failed, SMS-send succeeded: calendar_created=false, sms_sent=true, 200
C2_Witness ==
    /\ ValidatedWithCallback
    /\ Answered
    /\ Made("calendar.events.insert")
    /\ outcome.calendar = "failed"
    /\ outcome.sms = "ok"
    /\ ~TheResponse.data.calendar_created
    /\ TheResponse.data.sms_sent
    /\ TheResponse.status_code = HTTP_200_OK

\* C3: a valid /webhook payload without a callback_time (absent or empty)
\* causes no external call at all and is answered 200 "acknowledged" with
\* calendar_created, sms_sent and email_sent all false.
C3_NoCallbackNoSideEffects ==
    ValidatedNoCallback =>
        /\ calls = <<>>
        /\ outcome.calendar = "none" /\ outcome.sms = "none" /\ outcome.email = "none"
        /\ pc \in {"validated", "responded"}
        /\ Answered =>
              /\ Len(sent) = 1
              /\ TheResponse.status_code = HTTP_200_OK
              /\ TheResponse.status = "acknowledged"
              /\ TheResponse.has_data
              /\ ~TheResponse.data.calendar_created
              /\ ~TheResponse.data.sms_sent
              /\ ~TheResponse.data.email_sent

\* an empty callback_time with an email in the payload was acknowledged
C3_Witness ==
    /\ ValidatedNoCallback
    /\ Answered
    /\ payload.callback_time = <<>>
    /\ payload.email = Email_Jane
    /\ TheResponse.status = "acknowledged"

-----------------------------------------------------------------------------
\* the number of digit characters of a caller string
DigitCount(c) == Cardinality({i \in 1..Len(c) : c[i] \in Digits})

\* C4: every caller identifier with fewer than 10 digits among its characters
\* fails validation: the /webhook request is rejected with HTTP 400 and the
\* detail carries the phone-number message.
C4_ShortCallerRejected ==
    (/\ endpoint = "webhook"
     /\ body.kind = "json_object"
     /\ body.caller # None
     /\ DigitCount(body.caller) < 10
     /\ pc # "received")
    => /\ Answered
       /\ Len(sent) = 1
       /\ TheResponse.status_code = HTTP_400_BAD_REQUEST
       /\ TheResponse.detail \cap {PhoneTooShort, PhoneFewDigits} # {}
       /\ calls = <<>>

\* a caller long enough but with only nine digits among its characters was rejected
C4_Witness ==
    /\ endpoint = "webhook"
    /\ Answered
    /\ body.caller # None
    /\ Len(body.caller) >= 10
    /\ DigitCount(body.caller) = 9
    /\ TheResponse.status_code = HTTP_400_BAD_REQUEST
    /\ PhoneFewDigits \in TheResponse.detail

-----------------------------------------------------------------------------
\* C5: validation failures short-circuit.  A /webhook request answered 400 has
\* issued no calendar, SMS or email call, and a payload that fails validation
\* is answered 400 at once, with nothing attempted.
C5_RejectedNoExternalCalls ==
    /\ (endpoint = "webhook" /\ Answered /\ TheResponse.status_code = HTTP_400_BAD_REQUEST)
          => /\ calls = <<>>
             /\ outcome.calendar = "none" /\ outcome.sms = "none" /\ outcome.email = "none"
    /\ (endpoint = "webhook" /\ outcome.validation = "rejected")
          => /\ Answered
             /\ Len(sent) = 1
             /\ TheResponse.status_code = HTTP_400_BAD_REQUEST
             /\ calls = <<>>

\* a payload with a valid caller and callback_time but a bad email was rejected
C5_Witness ==
    /\ endpoint = "webhook"
    /\ Answered
    /\ body.caller = Caller_Full
    /\ body.callback_time = Time_Z
    /\ body.email = Email_Bad
    /\ TheResponse.status_code = HTTP_400_BAD_REQUEST
    /\ calls = <<>>

-----------------------------------------------------------------------------
CalendarFailed == outcome.calendar \in {"failed", "raised"}

\* C6 as stated: in every handler that creates a calendar event, the booking
\* handler included, a failed calendar-create is followed by the SMS attempt
\* and does not fail the request.
C6_CalendarFailureNonFatalEverywhere ==
    (endpoint \in {"webhook", "book"} /\ Answered /\ CalendarFailed)
        => /\ outcome.sms # "none"
           /\ TheResponse.status_code # HTTP_500_INTERNAL_SERVER_ERROR

\* C6 as amended: in /webhook a failed calendar-create is non-fatal (send_sms
\* is still invoked and the answer is 200); in POST /sfnw/book it is fatal
\* (the answer is 500 and no SMS is sent).
C6_CalendarFailureNonFatalInWebhook ==
    /\ (endpoint = "webhook" /\ Answered /\ CalendarFailed)
          => /\ outcome.sms # "none"
             /\ TheResponse.status_code = HTTP_200_OK
    /\ (endpoint = "book" /\ CalendarFailed)
          => /\ Answered
             /\ outcome.sms = "none"
             /\ ~Made("twilio.messages.create")
             /\ TheResponse.status_code = HTTP_500_INTERNAL_SERVER_ERROR

\* the booking handler answered 500 after its calendar insert raised
C6_Witness ==
    /\ endpoint = "book"
    /\ Answered
    /\ Made("calendar.events.insert")
    /\ outcome.calendar = "raised"
    /\ TheResponse.status_code = HTTP_500_INTERNAL_SERVER_ERROR

-----------------------------------------------------------------------------
StageRank(p) ==
    CASE p = "idle" -> 0
      [] p = "received" -> 1
      [] p = "validated" -> 2
      [] p = "calendar_attempted" -> 3
      [] p = "sms_attempted" -> 4
      [] p = "notifications_attempted" -> 5
      [] p = "responded" -> 6

\* the three terminal states of a /webhook request
TerminalState ==
    \/ /\ TheResponse.status_code = HTTP_200_OK
       /\ TheResponse.has_data
       /\ outcome.validation = "ok"
    \/ /\ TheResponse.status_code = HTTP_400_BAD_REQUEST
       /\ outcome.validation = "rejected"
    \/ /\ TheResponse.status_code = HTTP_500_INTERNAL_SERVER_ERROR
       /\ outcome.validation = "error"

\* C7: every /webhook request moves only forward through received, validated,
\* calendar attempted, notifications attempted, responded; it returns exactly
\* one response, which is success (200 with the aggregate result), rejected
\* (400) or internal_error (500); and every received request is answered.
C7_OneTerminalState ==
    /\ [][(endpoint' = "webhook" /\ pc' # pc) => StageRank(pc') > StageRank(pc)]_vars
    /\ [](endpoint = "webhook" =>
            /\ Len(sent) <= 1
            /\ Answered <=> Len(sent) = 1
            /\ Answered => TerminalState)
    /\ ((endpoint = "webhook" /\ pc = "received") ~> (endpoint = "webhook" /\ Answered))

\* a /webhook request ended in internal_error
C7_Witness ==
    /\ endpoint = "webhook"
    /\ Answered
    /\ Len(sent) = 1
    /\ TheResponse.status_code = HTTP_500_INTERNAL_SERVER_ERROR

-----------------------------------------------------------------------------
\* C8: every malformed /webhook request (a body that is not JSON, JSON that is
\* not an object, an object without caller) is answered 400, never 500.
C8_MalformedRejected ==
    (/\ endpoint = "webhook"
     /\ Answered
     /\ \/ body.kind \in {"not_json", "json_non_object"}
        \/ (body.kind = "json_object" /\ body.caller = None))
    => TheResponse.status_code = HTTP_400_BAD_REQUEST

-----------------------------------------------------------------------------
\* a trailing "Z", and only a trailing one, read as the UTC offset
TrailingZAsUtc(v) ==
    IF Len(v) > 0 /\ v[Len(v)] = "Z" THEN [v EXCEPT ![Len(v)] = "+00:00"] ELSE v

\* C9: a payload whose callback_time is present (non-empty) and does not parse
\* as ISO-8601 once a trailing "Z" is read as a UTC offset, or whose email is
\* present and not a valid address, is rejected with HTTP 400 even when the
\* caller is valid.
C9_BadTimeOrEmailRejected ==
    (/\ endpoint = "webhook"
     /\ body.kind = "json_object"
     /\ Answered
     /\ \/ /\ Truthy(body.callback_time)
           /\ ~fromisoformat(TrailingZAsUtc(body.callback_time)).ok
        \/ /\ body.email # None
           /\ EmailStr(body.email) # "ok")
    => TheResponse.status_code = HTTP_400_BAD_REQUEST

-----------------------------------------------------------------------------
\* C10: within one /webhook request the email body is rendered only once the
\* calendar step has finished; the link it carries is the link the calendar
\* step of this request returned when that step succeeded, and there is no
\* link when it failed or raised.
C10_EmailLinkFromOwnCalendarStep ==
    /\ [][(endpoint' = "webhook" /\ outcome'.email_link # outcome.email_link)
             => (outcome.calendar # "none" /\ outcome'.calendar = outcome.calendar)]_vars
    /\ []((endpoint = "webhook" /\ outcome.email_link # Unrendered) =>
            /\ outcome.calendar # "none"
            /\ outcome.calendar = "ok" =>
                  /\ outcome.email_link = outcome.calendar_returned
                  /\ outcome.email_link = HtmlLink(nEvents)
            /\ outcome.calendar # "ok" => outcome.email_link = None)

\* the calendar already holds an event of an earlier request, this request's
\* calendar step failed, and its email went out without a link
C10_Witness ==
    /\ endpoint = "webhook"
    /\ Answered
    /\ nEvents = 1
    /\ outcome.calendar = "failed"
    /\ outcome.email = "ok"
    /\ outcome.email_link = None

-----------------------------------------------------------------------------
\* one of the telephony credentials (account id, secret, sender number) is absent
SmsCredentialsAbsent ==
    ~env["TWILIO_SID"] \/ ~env["TWILIO_AUTH"] \/ ~env["TWILIO_NUMBER"]

\* C11: when a telephony credential is absent at startup the SMS path of
\* /webhook stays disabled for the whole life of the process: the
\* configuration never changes, no request issues an SMS provider call, every
\* aggregate result has sms_sent=false, and a validated request with a
\* callback_time is still answered 200 after attempting calendar and email.
C11_SmsDisabledWithoutCredentials ==
    /\ [][env' = env]_vars
    /\ []((SmsCredentialsAbsent /\ endpoint = "webhook") =>
            /\ ~Made("twilio.messages.create")
            /\ ~responses.sms_sent
            /\ outcome.sms \in {"none", "disabled"}
            /\ (Answered /\ TheResponse.has_data) => ~TheResponse.data.sms_sent
            /\ (ValidatedWithCallback /\ Answered) =>
                  /\ TheResponse.status_code = HTTP_200_OK
                  /\ outcome.sms = "disabled"
                  /\ outcome.calendar # "none"
                  /\ Truthy(payload.email) => outcome.email # "none")

\* only the sender number is missing; the second request of the process is
\* answered 200 with the event created and the email sent, and no SMS
C11_Witness ==
    /\ env["TWILIO_SID"] /\ env["TWILIO_AUTH"] /\ ~env["TWILIO_NUMBER"]
    /\ delivered = 2
    /\ ValidatedWithCallback
    /\ Answered
    /\ TheResponse.status_code = HTTP_200_OK
    /\ outcome.sms = "disabled"
    /\ TheResponse.data.calendar_created
    /\ TheResponse.data.email_sent
    /\ ~TheResponse.data.sms_sent

-----------------------------------------------------------------------------
\* the place of a provider call in the order calendar, SMS, email
CallRank(c) ==
    CASE c = "calendar.build" -> 1
      [] c = "calendar.events.insert" -> 2
      [] c = "twilio.messages.create" -> 3
      [] c = "smtp.sendmail" -> 4

IsPrefix(s, t) == Len(s) <= Len(t) /\ SubSeq(t, 1, Len(s)) = s

IntegrationSteps == {"calendar", "sms", "email"}

\* C13: no retry.  Within one /webhook request the provider calls are issued
\* in the order calendar, SMS, email and each at most once; calls already made
\* are never repeated, and an integration step that has finished (failed or
\* not) is never run again.
C13_NoRetry ==
    /\ [](endpoint = "webhook" =>
            \A i, j \in 1..Len(calls) : i < j => CallRank(calls[i]) < CallRank(calls[j]))
    /\ [][(endpoint = "webhook" /\ endpoint' = "webhook") =>
             /\ IsPrefix(calls, calls')
             /\ \A k \in IntegrationSteps :
                   outcome[k] # "none" => outcome'[k] = outcome[k]]_vars

\* all three provider calls of one request failed, and each was issued once
C13_Witness ==
    /\ endpoint = "webhook"
    /\ Answered
    /\ outcome.calendar = "failed"
    /\ outcome.sms = "failed"
    /\ outcome.email = "failed"
    /\ calls = <<"calendar.build", "calendar.events.insert",
                 "twilio.messages.create", "smtp.sendmail">>

-----------------------------------------------------------------------------
\* every integration of /webhook is configured
AllConfigured == \A v \in EnvVars : env[v]

\* C14: a /webhook payload with a valid caller, a valid callback_time, a
\* customer_name and a valid email, served with every integration configured
\* and every provider call succeeding, is answered 200 "success" with
\* calendar_created, sms_sent and email_sent all true and an appointment_time
\* equal to the callback_time string of the request body, unchanged.
C14_EndToEndSuccess ==
    (/\ endpoint = "webhook"
     /\ Answered
     /\ body.kind = "json_object"
     /\ body.caller # None /\ validate_phone(body.caller) = "ok"
     /\ Truthy(body.callback_time) /\ validate_datetime(body.callback_time) = "ok"
     /\ Truthy(body.customer_name)
     /\ Truthy(body.email) /\ EmailStr(body.email) = "ok"
     /\ AllConfigured
     /\ outcome.calendar = "ok" /\ outcome.sms = "ok" /\ outcome.email = "ok")
    => /\ Len(sent) = 1
       /\ TheResponse.status_code = HTTP_200_OK
       /\ TheResponse.status = "success"
       /\ TheResponse.has_data
       /\ TheResponse.data.calendar_created
       /\ TheResponse.data.sms_sent
       /\ TheResponse.data.email_sent
       /\ TheResponse.appointment_time = body.callback_time
       /\ payload.customer_name = body.customer_name

\* the scenario of the specification: "+12025551234", "2025-06-02T15:00:00Z",
\* "Jane Smith", "jane@example.com", every call succeeding
C14_Witness ==
    /\ endpoint = "webhook"
    /\ Answered
    /\ AllConfigured
    /\ body.caller = Caller_Full
    /\ body.callback_time = Time_Z
    /\ body.customer_name = Name_Jane
    /\ body.email = Email_Jane
    /\ outcome.calendar = "ok" /\ outcome.sms = "ok" /\ outcome.email = "ok"
    /\ TheResponse.status_code = HTTP_200_OK
    /\ TheResponse.appointment_time = Time_Z

-----------------------------------------------------------------------------
\* the calendar holds the event this request created
OwnEventInPlace ==
    \E n \in 1..nEvents : responses.calendar_event_id = EventId(n)

\* C17: POST /sfnw/book runs parse, calendar insert, SMS send in that order
\* and stops at the first failure with HTTP 500: nothing is called after a
\* failed parse, no SMS is sent unless the event was created, 200 "ok" means
\* both the insert and the SMS succeeded, and a 500 from the SMS step leaves
\* the created event on the calendar (events are never removed).
C17_BookingFailFast ==
    /\ [][nEvents' >= nEvents]_vars
    /\ [](endpoint = "book" =>
            /\ \A i, j \in 1..Len(calls) : i < j => CallRank(calls[i]) < CallRank(calls[j])
            /\ calls # <<>> => outcome.validation = "ok"
            /\ outcome.validation = "error" =>
                  /\ Answered /\ calls = <<>>
                  /\ TheResponse.status_code = HTTP_500_INTERNAL_SERVER_ERROR
            /\ outcome.calendar = "raised" =>
                  /\ Answered /\ ~Made("twilio.messages.create")
                  /\ TheResponse.status_code = HTTP_500_INTERNAL_SERVER_ERROR
            /\ Made("twilio.messages.create") =>
                  /\ Made("calendar.events.insert")
                  /\ outcome.calendar = "ok"
                  /\ OwnEventInPlace
            /\ outcome.sms = "failed" =>
                  /\ Answered
                  /\ TheResponse.status_code = HTTP_500_INTERNAL_SERVER_ERROR
                  /\ OwnEventInPlace
            /\ Answered =>
                  /\ Len(sent) = 1
                  /\ TheResponse.status_code \in {HTTP_200_OK, HTTP_500_INTERNAL_SERVER_ERROR}
                  /\ TheResponse.status_code = HTTP_200_OK <=>
                        (outcome.calendar = "ok" /\ outcome.sms = "ok")
                  /\ TheResponse.status_code = HTTP_200_OK => TheResponse.status = "ok")

\* the SMS send raised after the event was inserted: 500, and the event stays
C17_Witness ==
    /\ endpoint = "book"
    /\ Answered
    /\ outcome.calendar = "ok"
    /\ outcome.sms = "failed"
    /\ TheResponse.status_code = HTTP_500_INTERNAL_SERVER_ERROR
    /\ nEvents = 1
    /\ OwnEventInPlace

-----------------------------------------------------------------------------
\* the calendar fields of an aggregate result are consistent
CalendarFieldsConsistent(d) ==
    /\ (d.calendar_event_id # None \/ d.calendar_link # None) => d.calendar_created
    /\ outcome.calendar \in {"none", "failed", "raised"} =>
          /\ ~d.calendar_created
          /\ d.calendar_event_id = None
          /\ d.calendar_link = None

\* C18: in every /webhook response that carries the aggregate result,
\* calendar_event_id and calendar_link are non-null only if calendar_created
\* is true; when the calendar step failed, raised or was skipped for want of a
\* callback_time, both are null and calendar_created is false.  The handler's
\* `responses` dict obeys the same rule at every point of the request.
C18_CalendarFieldsOnlyWhenCreated ==
    endpoint = "webhook" =>
        /\ CalendarFieldsConsistent(responses)
        /\ ValidatedNoCallback => outcome.calendar = "none"
        /\ (Answered /\ TheResponse.has_data) =>
              /\ CalendarFieldsConsistent(TheResponse.data)
              /\ TheResponse.data = responses

\* a created event: flag, id and link all present in the response
C18_Witness ==
    /\ endpoint = "webhook"
    /\ Answered
    /\ TheResponse.has_data
    /\ TheResponse.data.calendar_created
    /\ TheResponse.data.calendar_event_id = EventId(nEvents)
    /\ TheResponse.data.calendar_link = HtmlLink(nEvents)
    /\ nEvents = 2

-----------------------------------------------------------------------------
\* s without its last element
Front(s) == SubSeq(s, 1, Len(s) - 1)

\* a timestamp that ends in "Z" and holds no other "Z"
HasTrailingZ(v) ==
    /\ Len(v) > 1
    /\ v[Len(v)] = "Z"
    /\ \A i \in 1..(Len(v) - 1) : v[i] # "Z"

\* C15: for every valid ISO-8601 timestamp, the timestamp with a trailing "Z"
\* and the same timestamp without it both parse, and both give the same
\* instant: the calendar event created for the "Z" form starts at the instant
\* an event for the form without "Z" would start at.
C15_TrailingZSameInstant ==
    (/\ endpoint = "webhook"
     /\ body.kind = "json_object"
     /\ body.callback_time # None
     /\ HasTrailingZ(body.callback_time)
     /\ fromisoformat(Front(body.callback_time)).ok)
    => /\ parse_callback_time(body.callback_time).ok
       /\ parse_callback_time(Front(body.callback_time)).ok
       /\ outcome.calendar = "ok" =>
             outcome.event_start =
                event_start_instant(parse_callback_time(Front(body.callback_time)))

-----------------------------------------------------------------------------
\* the number n of the event whose link is HtmlLink(n)
EventOfLink(link) == link[2]

\* the aggregate result of invocation r, from the outcomes of its own provider calls
OwnData(r) ==
    [calendar_created |-> r.outcome.calendar = "ok",
     sms_sent |-> r.outcome.sms = "ok",
     email_sent |-> r.outcome.email = "ok",
     calendar_event_id |-> IF r.outcome.calendar = "ok"
                           THEN EventId(EventOfLink(r.outcome.calendar_returned)) ELSE None,
     calendar_link |-> IF r.outcome.calendar = "ok"
                       THEN r.outcome.calendar_returned ELSE None]

\* the response of invocation r as its own request body and the outcomes of
\* its own provider calls determine it
OwnResponse(r) ==
    IF r.body.kind = "not_json"
    THEN HTTPException(HTTP_500_INTERNAL_SERVER_ERROR, {JSONDecodeError})
    ELSE IF PayloadErrors(r.body) # {}
    THEN HTTPException(HTTP_400_BAD_REQUEST, PayloadErrors(r.body))
    ELSE IF ~Truthy(r.body.callback_time)
    THEN Response(HTTP_200_OK, "acknowledged", {}, TRUE, InitialResponses, None)
    ELSE Response(HTTP_200_OK, "success", {}, TRUE, OwnData(r), r.body.callback_time)

\* which provider calls of r were possible is decided by the startup configuration
OutcomesFitConfiguration(r) ==
    /\ r.outcome.sms = "disabled" <=>
          (r.outcome.sms # "none" /\ SmsCredentialsAbsent)
    /\ r.outcome.email = "disabled" <=>
          (r.outcome.email # "none" /\ (~env["EMAIL_FROM"] \/ ~env["EMAIL_PASSWORD"]))
    /\ ~env["GOOGLE_SERVICE_ACCOUNT_JSON_B64"] => r.outcome.calendar \in {"none", "raised"}

\* C12: two /webhook requests processed concurrently, in any interleaving of
\* their steps, do not interfere.  A step of the running invocation leaves the
\* locals of the parked one untouched, and the response of each is the one
\* its own body, the startup configuration and the outcomes of its own
\* provider calls determine, as when it is processed alone.
C12_RequestsIndependent ==
    /\ [][other' # other => (other' = Running /\ Running' = other)]_vars
    /\ [](\A r \in {Running, other} :
            r.endpoint = "webhook" =>
               /\ OutcomesFitConfiguration(r)
               /\ r.pc = "responded" => r.sent = <<OwnResponse(r)>>)

\* the parked request had its event created first and is not finished yet;
\* the running one, with another body, is already answered with its own result
C12_Witness ==
    /\ pc = "responded"
    /\ other.pc = "calendar_attempted"
    /\ body.email = Email_Jane /\ other.body.email = None
    /\ other.responses.calendar_event_id = EventId(1)
    /\ outcome.calendar = "failed"
    /\ outcome.sms = "ok"
    /\ sent = <<OwnResponse(Running)>>
    /\ TheResponse.data.sms_sent /\ ~TheResponse.data.calendar_created

-----------------------------------------------------------------------------
MadeBy(r, c) == \E i \in 1..Len(r.calls) : r.calls[i] = c

\* r is an answered delivery of a valid payload that carries a callback_time
AnsweredDelivery(r) ==
    /\ r.endpoint = "webhook"
    /\ r.pc = "responded"
    /\ r.body.kind = "json_object"
    /\ PayloadErrors(r.body) = {}
    /\ Truthy(r.body.callback_time)

\* every step of the handler ran for r, and every provider call the
\* configuration and the calendar service allowed was issued
FullyProcessed(r) ==
    /\ r.sent = <<OwnResponse(r)>>
    /\ r.sent[1].status = "success"
    /\ r.outcome.calendar # "none"
    /\ r.outcome.sms # "none"
    /\ Truthy(r.body.email) => r.outcome.email # "none"
    /\ env["GOOGLE_SERVICE_ACCOUNT_JSON_B64"] => MadeBy(r, "calendar.build")
    /\ r.outcome.calendar # "raised" => MadeBy(r, "calendar.events.insert")
    /\ ~SmsCredentialsAbsent => MadeBy(r, "twilio.messages.create")
    /\ (Truthy(r.body.email) /\ env["EMAIL_FROM"] /\ env["EMAIL_PASSWORD"])
          => MadeBy(r, "smtp.sendmail")

\* C16: /webhook keeps no idempotency state.  When the same valid payload
\* with a callback_time has been delivered twice, the handler has processed
\* each delivery in full: the calendar-create call, the SMS send and, with an
\* email in the payload, the email send were issued for both, and two
\* successful inserts leave two distinct events on the calendar.
C16_DuplicateDeliveryProcessedAgain ==
    (/\ AnsweredDelivery(Running)
     /\ AnsweredDelivery(other)
     /\ body = other.body)
    => /\ FullyProcessed(Running)
       /\ FullyProcessed(other)
       /\ (outcome.calendar = "ok" /\ other.outcome.calendar = "ok") =>
             /\ nEvents >= 2
             /\ responses.calendar_event_id # other.responses.calendar_event_id

\* the payload of the end-to-end scenario delivered twice, every call
\* succeeding both times: two events, two SMS, two emails
C16_Witness ==
    /\ AnsweredDelivery(Running)
    /\ AnsweredDelivery(other)
    /\ body = other.body
    /\ body.caller = Caller_Full /\ body.callback_time = Time_Z /\ body.email = Email_Jane
    /\ other.calls = <<"calendar.build", "calendar.events.insert",
                       "twilio.messages.create", "smtp.sendmail">>
    /\ calls = other.calls
    /\ other.responses.calendar_event_id = EventId(1)
    /\ responses.calendar_event_id = EventId(2)
    /\ responses.sms_sent /\ other.responses.sms_sent
    /\ responses.email_sent /\ other.responses.email_sent
    /\ nEvents = 2

====
